---- MODULE Spec2Model ----
(***************************************************************************)
(* A model of tap-hubspot's stream client (src/tap_hubspot/client.py):     *)
(* the request builder (rest_method, get_url_params,                       *)
(* prepare_request_payload, get_properties), the paginator                 *)
(* (HubspotJSONPathPaginator.get_next), the record projector               *)
(* (post_process) and the batch writer (get_batches).                      *)
(*                                                                         *)
(* Python values are tagged records: None is [t |-> "none"], an int is     *)
(* [t |-> "int", n |-> 5], a str is [t |-> "str", s |-> <<"a", "b">>] (its *)
(* characters), a list is [t |-> "list", v |-> <<...>>], a datetime is     *)
(* [t |-> "datetime", sec |-> .., us |-> ..] (epoch seconds, microseconds).*)
(* A dict is a function from its keys to its values.                       *)
(***************************************************************************)
EXTENDS Integers, Sequences, FiniteSets, TLC

VARIABLES
    \* ---- the stream instance and its configuration
    forced_get,             \* HubSpotStream.forced_get
    replication_method,     \* "INCREMENTAL" or "FULL_TABLE"
    replication_key,        \* PyNone or a str
    properties_object_type, \* PyNone or a str
    extra_properties,       \* the property cache: PyNone or a list
    cfg_test,               \* config["test"]
    cfg_start_from,         \* config["start_from"]: PyNone or a str
    cfg_limit,              \* config["limit"]: PyNone or an int
    state_ts,               \* get_starting_timestamp(context): PyNone or
                            \* a datetime
    \* ---- one page sequence (RESTStream.request_records)
    rpc,                    \* "prepare", "sent", "done", "aborted", "idle"
    page_token,             \* the paginator's current value
    req,                    \* the request last built
    exc,                    \* the exception that aborted the sync, or "none"
    logged,                 \* whether an error line was written to the log
    net_calls,              \* property-listing calls sent so far
    gp,                     \* the last get_properties call: the cache before
                            \* it, whether it sent the call, what it returned,
                            \* whether it raised and with what message, and
                            \* the response it got
    last_token,             \* the token extracted from the last page response
    last_next,              \* what get_next returned for it
    pages,                  \* page requests built so far
    \* ---- one get_batches invocation
    cfg_batch_size,         \* config["batch_size"]: PyNone or an int
    source_len,             \* records _sync_records yields before it ends
    pulled,                 \* records pulled from _sync_records so far
    i,                      \* sequence number of the current batch file
    chunk_size,             \* records written to the current batch file
    filename,               \* PyNone or the name of the current batch file
    f,                      \* PyNone or the raw handle of the current file
    gz,                     \* PyNone or the compressor wrapped around f
    files,                  \* the storage: per file its records and whether
                            \* its raw handle and its compressor are open
    manifest,               \* the file names yielded so far, in order
    bpc,                    \* where the generator stands
    bexc,                   \* the exception that ended it, or "none"
    \* ---- repeated incremental syncs against the search endpoint
    upstream,               \* per replication-key value, the records upstream
    emitted,                \* per replication-key value, the records of it
                            \* (in upstream order) emitted by some sync so far
    emitted_at_start,       \* emitted, as it was when this sync started
    sync_max,               \* highest replication-key value this sync emitted
    spc,                    \* "paging", "finished" or "idle"
    \* ---- one post_process call
    row,                    \* the raw record handed to post_process
    out,                    \* the record it returned (PyNone before)
    rexc,                   \* the exception it raised, or "none"
    ppc,                    \* "call", "returned", "raised" or "idle"
    stream_name,            \* the stream's name
    sorted_read             \* what is_sorted gave when it was read (PyNone
                            \* before)

reqVars == <<forced_get, replication_method, replication_key,
             properties_object_type, extra_properties, cfg_test,
             cfg_start_from, cfg_limit, state_ts, rpc, page_token, req, exc,
             logged, net_calls, gp, last_token, last_next, pages>>

batchVars == <<cfg_batch_size, source_len, pulled, i, chunk_size, filename,
               f, gz, files, manifest, bpc, bexc>>

syncVars == <<upstream, emitted, emitted_at_start, sync_max, spc>>

recVars == <<row, out, rexc, ppc, stream_name, sorted_read>>

vars == <<reqVars, batchVars, syncVars, recVars>>

\* What the actions of one component leave alone.
notRequest == <<batchVars, syncVars, recVars>>
notBatch == <<reqVars, syncVars, recVars>>

(***************************************************************************)
(* Bounds of the model.                                                    *)
(***************************************************************************)
MaxPages == 3
MaxRecords == 5
MaxStamp == 2

(***************************************************************************)
(* Python values.                                                          *)
(***************************************************************************)
PyNone == [t |-> "none"]
PyInt(n) == [t |-> "int", n |-> n]
PyStr(chars) == [t |-> "str", s |-> chars]
PyList(v) == [t |-> "list", v |-> v]
PyDatetime(sec, us) == [t |-> "datetime", sec |-> sec, us |-> us]
PyBool(b) == [t |-> "bool", b |-> b]

\* bool(x) of Python: None, 0, "" and [] are false.
Truthy(x) ==
    CASE x.t = "none" -> FALSE
      [] x.t = "int" -> x.n # 0
      [] x.t = "str" -> Len(x.s) > 0
      [] x.t = "list" -> Len(x.v) > 0
      [] OTHER -> TRUE

IsDigit(c) == c \in {"0", "1", "2", "3", "4", "5", "6", "7", "8", "9"}

DigitVal(c) ==
    CASE c = "0" -> 0 [] c = "1" -> 1 [] c = "2" -> 2 [] c = "3" -> 3
      [] c = "4" -> 4 [] c = "5" -> 5 [] c = "6" -> 6 [] c = "7" -> 7
      [] c = "8" -> 8 [] c = "9" -> 9

RECURSIVE DigitsVal(_)
DigitsVal(chars) ==
    IF chars = <<>> THEN 0
    ELSE 10 * DigitsVal(SubSeq(chars, 1, Len(chars) - 1))
         + DigitVal(chars[Len(chars)])

AllDigits(chars) ==
    /\ Len(chars) > 0
    /\ \A k \in 1..Len(chars) : IsDigit(chars[k])

RECURSIVE LStrip(_)
LStrip(chars) ==
    IF chars # <<>> /\ chars[1] = " " THEN LStrip(Tail(chars)) ELSE chars

RECURSIVE RStrip(_)
RStrip(chars) ==
    IF chars # <<>> /\ chars[Len(chars)] = " "
    THEN RStrip(SubSeq(chars, 1, Len(chars) - 1))
    ELSE chars

\* int(x) of Python for the values a continuation token takes: an int is
\* itself, a str is stripped and read as an optionally signed decimal,
\* None raises TypeError and any other str raises ValueError.
PyIntOf(x) ==
    CASE x.t = "int" -> [ok |-> TRUE, n |-> x.n]
      [] x.t = "str" ->
            LET stripped == RStrip(LStrip(x.s))
                signed == stripped # <<>> /\ stripped[1] \in {"+", "-"}
                digits == IF signed THEN Tail(stripped) ELSE stripped
            IN  IF AllDigits(digits)
                THEN [ok |-> TRUE,
                      n |-> IF signed /\ stripped[1] = "-"
                            THEN 0 - DigitsVal(digits)
                            ELSE DigitsVal(digits)]
                ELSE [ok |-> FALSE, n |-> 0]
      [] OTHER -> [ok |-> FALSE, n |-> 0]

(***************************************************************************)
(* dateutil.parser.parse, for the strings of this model: a calendar date   *)
(* "YYYY-MM-DD" parses to midnight (read as UTC), a timestamp              *)
(* "YYYY-MM-DDTHH:MM:SS.mmmZ" to that instant, and a string with no date   *)
(* in it raises ParserError.                                               *)
(***************************************************************************)
IsLeap(y) == (y % 4 = 0 /\ y % 100 # 0) \/ y % 400 = 0

DaysInMonth(y, m) ==
    CASE m \in {1, 3, 5, 7, 8, 10, 12} -> 31
      [] m \in {4, 6, 9, 11} -> 30
      [] OTHER -> IF IsLeap(y) THEN 29 ELSE 28

\* Days from 1970-01-01 to the civil date y-m-d.
DaysFromCivil(y, m, d) ==
    LET yy == IF m <= 2 THEN y - 1 ELSE y
        era == yy \div 400
        yoe == yy - era * 400
        mp == IF m > 2 THEN m - 3 ELSE m + 9
        doy == (153 * mp + 2) \div 5 + d - 1
        doe == yoe * 365 + yoe \div 4 - yoe \div 100 + doy
    IN  era * 146097 + doe - 719468

\* "YYYY-MM-DD" at the head of chars, a calendar date from 1970 on.
IsDate(chars) ==
    /\ Len(chars) >= 10
    /\ chars[5] = "-" /\ chars[8] = "-"
    /\ AllDigits(SubSeq(chars, 1, 4))
    /\ AllDigits(SubSeq(chars, 6, 7))
    /\ AllDigits(SubSeq(chars, 9, 10))
    /\ DigitsVal(SubSeq(chars, 1, 4)) >= 1970
    /\ DigitsVal(SubSeq(chars, 6, 7)) \in 1..12
    /\ DigitsVal(SubSeq(chars, 9, 10)) \in
           1..DaysInMonth(DigitsVal(SubSeq(chars, 1, 4)),
                          DigitsVal(SubSeq(chars, 6, 7)))

\* "THH:MM:SS.mmmZ" at positions 11..24 of chars.
IsTimeOfDay(chars) ==
    /\ Len(chars) = 24
    /\ chars[11] = "T" /\ chars[14] = ":" /\ chars[17] = ":"
    /\ chars[20] = "." /\ chars[24] = "Z"
    /\ AllDigits(SubSeq(chars, 12, 13))
    /\ AllDigits(SubSeq(chars, 15, 16))
    /\ AllDigits(SubSeq(chars, 18, 19))
    /\ AllDigits(SubSeq(chars, 21, 23))
    /\ DigitsVal(SubSeq(chars, 12, 13)) < 24
    /\ DigitsVal(SubSeq(chars, 15, 16)) < 60
    /\ DigitsVal(SubSeq(chars, 18, 19)) < 60

parse_datetime(chars) ==
    LET days == DaysFromCivil(DigitsVal(SubSeq(chars, 1, 4)),
                              DigitsVal(SubSeq(chars, 6, 7)),
                              DigitsVal(SubSeq(chars, 9, 10)))
    IN  IF IsDate(chars) /\ Len(chars) = 10
        THEN [ok |-> TRUE, value |-> PyDatetime(days * 86400, 0)]
        ELSE IF IsDate(chars) /\ IsTimeOfDay(chars)
        THEN [ok |-> TRUE,
              value |-> PyDatetime(
                  days * 86400
                  + DigitsVal(SubSeq(chars, 12, 13)) * 3600
                  + DigitsVal(SubSeq(chars, 15, 16)) * 60
                  + DigitsVal(SubSeq(chars, 18, 19)),
                  DigitsVal(SubSeq(chars, 21, 23)) * 1000)]
        ELSE [ok |-> FALSE, value |-> PyNone]

\* int(dt.timestamp() * 1000): epoch milliseconds, kept as seconds and the
\* milliseconds within the second (the number is sec * 1000 + ms; it does
\* not fit the 32-bit integers of the model checker).
EpochMillis(dt) == [sec |-> dt.sec, ms |-> dt.us \div 1000]

(***************************************************************************)
(* Program constants.                                                      *)
(***************************************************************************)
DefaultLimit == 100
SearchLimit == 100
CursorStep == 100
OffsetCeiling == 10000
StatusOk == 200
DefaultBatchSize == 1000000

(***************************************************************************)
(* HubSpotStream: the request builder.                                     *)
(***************************************************************************)
EmptyDict == [k \in {} |-> PyNone]

is_sorted_AnyIncremental(rm, name) == rm = "INCREMENTAL"

\* The is_sorted property of a stream named name with replication method
\* rm.
is_sorted(rm, name) == rm = "INCREMENTAL" /\ name # "contacts"

rest_method_GetUnlessForced(fg, rm) ==
    IF ~fg \/ rm = "INCREMENTAL" THEN "POST" ELSE "GET"

rest_method(fg, rm) ==
    IF ~fg /\ rm = "INCREMENTAL" THEN "POST" ELSE "GET"

\* A response of the property-listing endpoint: its status, the names of
\* its results and its body text.
PropertyResponses ==
    [status : {200, 204, 500},
     names : {<<>>, <<"email">>, <<"email", "phone">>},
     text : {"{}", "rate limited"}]

\* The RuntimeError of line 222 is built from the status and the text of
\* the response; a call that does not raise has no message.
NoMessage == [status |-> 0, text |-> ""]
CouldNotFetch(resp) == [status |-> resp.status, text |-> resp.text]

get_properties_EmptyOnFailure(ep, pot, resp) ==
    IF ep # PyNone
    THEN [raised |-> FALSE, value |-> ep.v, cache |-> ep, sent |-> FALSE,
          message |-> NoMessage]
    ELSE IF ~Truthy(pot)
    THEN [raised |-> FALSE, value |-> <<>>, cache |-> PyList(<<>>),
          sent |-> FALSE, message |-> NoMessage]
    ELSE IF resp.status # StatusOk
    THEN [raised |-> FALSE, value |-> <<>>, cache |-> PyList(<<>>),
          sent |-> TRUE, message |-> NoMessage]
    ELSE [raised |-> FALSE, value |-> resp.names,
          cache |-> PyList(resp.names), sent |-> TRUE,
          message |-> NoMessage]

get_properties_RefetchWhenEmpty(ep, pot, resp) ==
    IF Truthy(ep)
    THEN [raised |-> FALSE, value |-> ep.v, cache |-> ep, sent |-> FALSE,
          message |-> NoMessage]
    ELSE IF ~Truthy(pot)
    THEN [raised |-> FALSE, value |-> <<>>, cache |-> PyList(<<>>),
          sent |-> FALSE, message |-> NoMessage]
    ELSE IF resp.status # StatusOk
    THEN [raised |-> TRUE, value |-> <<>>, cache |-> ep, sent |-> TRUE,
          message |-> CouldNotFetch(resp)]
    ELSE [raised |-> FALSE, value |-> resp.names,
          cache |-> PyList(resp.names), sent |-> TRUE,
          message |-> NoMessage]

\* get_properties with the cache ep, the declared object type pot and resp
\* the answer the listing endpoint gives if it is asked: whether it raised,
\* the list returned, the cache afterwards and whether the call was sent.
get_properties(ep, pot, resp) ==
    IF ep # PyNone
    THEN [raised |-> FALSE, value |-> ep.v, cache |-> ep, sent |-> FALSE,
          message |-> NoMessage]
    ELSE IF ~Truthy(pot)
    THEN [raised |-> FALSE, value |-> <<>>, cache |-> PyList(<<>>),
          sent |-> FALSE, message |-> NoMessage]
    ELSE IF resp.status # StatusOk
    THEN [raised |-> TRUE, value |-> <<>>, cache |-> ep, sent |-> TRUE,
          message |-> CouldNotFetch(resp)]
    ELSE [raised |-> FALSE, value |-> resp.names,
          cache |-> PyList(resp.names), sent |-> TRUE,
          message |-> NoMessage]

get_url_params(fg, rm, limit, ep, pot, resp, token) ==
    IF ~fg /\ rm = "INCREMENTAL"
    THEN [raised |-> FALSE, value |-> EmptyDict, cache |-> ep, sent |-> FALSE]
    ELSE LET props == get_properties(ep, pot, resp)
             params ==
                 ("limit" :> (IF limit = PyNone THEN DefaultLimit ELSE limit.n))
                 @@ (IF Len(props.value) > 0
                     THEN "properties" :> props.value ELSE EmptyDict)
                 @@ (IF Truthy(token) THEN "after" :> token ELSE EmptyDict)
         IN  [raised |-> props.raised,
              value |-> IF props.raised THEN EmptyDict ELSE params,
              cache |-> props.cache, sent |-> props.sent]

\* logging.error(msg, file=sys.stderr): the logging call takes no `file`
\* keyword, so the call itself raises TypeError and writes nothing.
logging_error_file == [raised |-> TRUE, exc |-> "TypeError", logged |-> FALSE]

starting_value_ConfigFirst(st, start_from) ==
    IF Truthy(start_from)
    THEN LET parsed == parse_datetime(start_from.s)
         IN  IF parsed.ok
             THEN [raised |-> FALSE, exc |-> "none", logged |-> FALSE,
                   value |-> parsed.value]
             ELSE [raised |-> logging_error_file.raised,
                   exc |-> logging_error_file.exc,
                   logged |-> logging_error_file.logged, value |-> st]
    ELSE [raised |-> FALSE, exc |-> "none", logged |-> FALSE, value |-> st]

\* Lines 149-161 of prepare_request_payload: the checkpoint of the state,
\* else the parsed start_from of the configuration, else None.
starting_value(st, start_from) ==
    IF Truthy(st)
    THEN [raised |-> FALSE, exc |-> "none", logged |-> FALSE, value |-> st]
    ELSE IF ~Truthy(start_from)
    THEN [raised |-> FALSE, exc |-> "none", logged |-> FALSE, value |-> st]
    ELSE LET parsed == parse_datetime(start_from.s)
         IN  IF parsed.ok
             THEN [raised |-> FALSE, exc |-> "none", logged |-> FALSE,
                   value |-> parsed.value]
             ELSE [raised |-> logging_error_file.raised,
                   exc |-> logging_error_file.exc,
                   logged |-> logging_error_file.logged, value |-> st]

FilterGroups(rk, start) ==
    <<[filters |-> <<[propertyName |-> rk, operator |-> "GTE",
                      value |-> EpochMillis(start)]>>]>>

prepare_request_payload(fg, rm, rk, st, start_from, ep, pot, resp, token) ==
    IF fg \/ rm # "INCREMENTAL"
    THEN [raised |-> FALSE, exc |-> "none", logged |-> FALSE,
          value |-> PyNone, cache |-> ep, sent |-> FALSE]
    ELSE LET start == starting_value(st, start_from)
             props == get_properties(ep, pot, resp)
             body ==
                 ("sorts" :> <<[propertyName |-> rk,
                                direction |-> "ASCENDING"]>>)
                 @@ ("limit" :> SearchLimit)
                 @@ (IF Len(props.value) > 0
                     THEN "properties" :> props.value ELSE EmptyDict)
                 @@ (IF Truthy(token) THEN "after" :> token ELSE EmptyDict)
                 @@ (IF Truthy(start.value)
                     THEN "filterGroups" :> FilterGroups(rk, start.value)
                     ELSE EmptyDict)
         IN  IF start.raised
             THEN [raised |-> TRUE, exc |-> start.exc, logged |-> start.logged,
                   value |-> PyNone, cache |-> ep, sent |-> FALSE]
             ELSE IF props.raised
             THEN [raised |-> TRUE, exc |-> "RuntimeError",
                   logged |-> start.logged, value |-> PyNone,
                   cache |-> props.cache, sent |-> props.sent]
             ELSE [raised |-> FALSE, exc |-> "none", logged |-> start.logged,
                   value |-> body, cache |-> props.cache, sent |-> props.sent]

(***************************************************************************)
(* HubspotJSONPathPaginator.get_next: the next cursor for a page response  *)
(* whose $.paging.next.after is token (PyNone when the path matches        *)
(* nothing).                                                               *)
(***************************************************************************)
get_next_CapAbove(test, fg, rm, token) ==
    IF test THEN PyNone
    ELSE IF /\ ~fg
            /\ rm = "INCREMENTAL"
            /\ PyIntOf(token).ok
            /\ PyIntOf(token).n + CursorStep > OffsetCeiling
    THEN PyNone
    ELSE token

get_next_IgnoreTest(test, fg, rm, token) ==
    IF /\ ~fg
       /\ rm = "INCREMENTAL"
       /\ PyIntOf(token).ok
       /\ PyIntOf(token).n + CursorStep >= OffsetCeiling
    THEN PyNone
    ELSE token

get_next_StopOnNonInteger(test, fg, rm, token) ==
    IF test THEN PyNone
    ELSE IF ~fg /\ rm = "INCREMENTAL"
    THEN IF /\ PyIntOf(token).ok
            /\ PyIntOf(token).n + CursorStep < OffsetCeiling
         THEN token
         ELSE PyNone
    ELSE token

get_next_CapInEveryMode(test, fg, rm, token) ==
    IF test THEN PyNone
    ELSE IF /\ PyIntOf(token).ok
            /\ PyIntOf(token).n + CursorStep >= OffsetCeiling
    THEN PyNone
    ELSE token

get_next(test, fg, rm, token) ==
    IF test THEN PyNone
    ELSE IF /\ ~fg
            /\ rm = "INCREMENTAL"
            /\ PyIntOf(token).ok
            /\ PyIntOf(token).n + CursorStep >= OffsetCeiling
    THEN PyNone
    ELSE token

(***************************************************************************)
(* The configurations and inputs of the model.                             *)
(***************************************************************************)
Chars_2021_01_01 == <<"2", "0", "2", "1", "-", "0", "1", "-", "0", "1">>
Chars_1970_01_02 == <<"1", "9", "7", "0", "-", "0", "1", "-", "0", "2">>
Chars_not_a_date == <<"n", "o", "t", "-", "a", "-", "d", "a", "t", "e">>

StartFromValues ==
    {PyNone, PyStr(<<>>), PyStr(Chars_2021_01_01), PyStr(Chars_1970_01_02),
     PyStr(Chars_not_a_date)}

\* Checkpoints of earlier syncs: 2022-04-13T07:41:30.007500Z and
\* 1970-01-01T00:00:00Z (the epoch itself is a datetime, and true).
StateValues ==
    {PyNone, PyDatetime(1649835690, 7500), PyDatetime(0, 0)}

ReplicationKey == PyStr(<<"u", "p", "d", "a", "t", "e", "d", "A", "t">>)

ObjectTypes == {PyNone, PyStr(<<"d", "e", "a", "l", "s">>)}

\* What $.paging.next.after of a page response may hold.
Tokens ==
    {PyNone, PyInt(0), PyInt(100), PyInt(9899), PyInt(9900),
     PyStr(<<"2", "0", "0">>), PyStr(<<"9", "8", "9", "9">>),
     PyStr(<<"9", "9", "0", "0">>), PyStr(<<" ", "9", "9", "0", "1">>),
     PyStr(<<"1", "0", "0", "0", "0">>), PyStr(<<"a", "b", "c">>),
     PyStr(<<>>)}

\* The batch writer when no get_batches invocation is modelled.
IdleBatch ==
    /\ cfg_batch_size = PyNone
    /\ source_len = 0
    /\ pulled = 0
    /\ i = 1
    /\ chunk_size = 0
    /\ filename = PyNone
    /\ f = PyNone
    /\ gz = PyNone
    /\ files = <<>>
    /\ manifest = <<>>
    /\ bpc = "idle"
    /\ bexc = "none"

\* The sync loop when no repeated sync is modelled.
IdleSync ==
    /\ upstream = <<>>
    /\ emitted = <<>>
    /\ emitted_at_start = <<>>
    /\ sync_max = 0
    /\ spc = "idle"

\* The record projector when no post_process call is modelled.
IdleRecord ==
    /\ row = <<>>
    /\ out = PyNone
    /\ rexc = "none"
    /\ ppc = "idle"
    /\ stream_name = "none"
    /\ sorted_read = PyNone

NoRequest == [method |-> "none", params |-> EmptyDict, body |-> PyNone]
NoCall ==
    [called |-> FALSE, before |-> PyNone, sent |-> FALSE, value |-> <<>>,
     raised |-> FALSE, message |-> NoMessage, response |-> NoMessage]

InitRequest ==
    /\ forced_get \in BOOLEAN
    /\ replication_method \in {"INCREMENTAL", "FULL_TABLE"}
    /\ replication_key \in
           IF replication_method = "INCREMENTAL"
           THEN {ReplicationKey} ELSE {PyNone, ReplicationKey}
    /\ properties_object_type \in ObjectTypes
    /\ extra_properties = PyNone
    /\ cfg_test \in BOOLEAN
    /\ cfg_start_from \in StartFromValues
    /\ cfg_limit \in {PyNone, PyInt(50)}
    /\ state_ts \in StateValues
    /\ rpc = "prepare"
    /\ page_token = PyNone
    /\ req = NoRequest
    /\ exc = "none"
    /\ logged = FALSE
    /\ net_calls = 0
    /\ gp = NoCall
    /\ last_token = PyNone
    /\ last_next = PyNone
    /\ pages = 0
    /\ IdleBatch
    /\ IdleSync
    /\ IdleRecord

streamVars == <<forced_get, replication_method, replication_key,
                properties_object_type, cfg_test, cfg_start_from, cfg_limit,
                state_ts>>

(***************************************************************************)
(* RESTStream.prepare_request for the next page: rest_method, then         *)
(* get_url_params, then prepare_request_payload; resp is what the          *)
(* property-listing endpoint answers if get_properties asks it.  An        *)
(* exception of either leaves the sync of the stream aborted.              *)
(***************************************************************************)
PrepareRequest ==
    /\ rpc = "prepare"
    /\ pages < MaxPages
    /\ \E resp \in PropertyResponses :
          LET post == ~forced_get /\ replication_method = "INCREMENTAL"
              params == get_url_params(forced_get, replication_method,
                                       cfg_limit, extra_properties,
                                       properties_object_type, resp,
                                       page_token)
              payload == prepare_request_payload(
                             forced_get, replication_method, replication_key,
                             state_ts, cfg_start_from, params.cache,
                             properties_object_type, resp, page_token)
              called == IF post
                        THEN ~starting_value(state_ts, cfg_start_from).raised
                        ELSE TRUE
              props == get_properties(extra_properties,
                                      properties_object_type, resp)
              sent == params.sent \/ (~params.raised /\ payload.sent)
          IN  /\ gp' = IF called
                       THEN [called |-> TRUE, before |-> extra_properties,
                             sent |-> sent, value |-> props.value,
                             raised |-> props.raised,
                             message |-> props.message,
                             response |-> IF sent
                                          THEN [status |-> resp.status,
                                                text |-> resp.text]
                                          ELSE NoMessage]
                       ELSE gp
              /\ net_calls' = net_calls + (IF sent THEN 1 ELSE 0)
              /\ pages' = pages + 1
              /\ IF params.raised
                 THEN /\ rpc' = "aborted"
                      /\ exc' = "RuntimeError"
                      /\ extra_properties' = params.cache
                      /\ UNCHANGED <<req, logged>>
                 ELSE IF payload.raised
                 THEN /\ rpc' = "aborted"
                      /\ exc' = payload.exc
                      /\ extra_properties' = payload.cache
                      /\ logged' = (logged \/ payload.logged)
                      /\ UNCHANGED req
                 ELSE /\ rpc' = "sent"
                      /\ req' = [method |-> rest_method(forced_get,
                                                        replication_method),
                                 params |-> params.value,
                                 body |-> payload.value]
                      /\ extra_properties' = payload.cache
                      /\ logged' = (logged \/ payload.logged)
                      /\ UNCHANGED exc
    /\ UNCHANGED <<streamVars, page_token, last_token, last_next, notRequest>>

(***************************************************************************)
(* The page response arrives with token at $.paging.next.after: get_next,  *)
(* then the paginator's advance (a repeated cursor is an error, a false    *)
(* one ends the page sequence).                                            *)
(***************************************************************************)
ReceivePage ==
    /\ rpc = "sent"
    /\ \E token \in Tokens :
          LET nxt == get_next(cfg_test, forced_get, replication_method, token)
          IN  /\ last_token' = token
              /\ last_next' = nxt
              /\ IF Truthy(nxt) /\ nxt = page_token
                 THEN /\ rpc' = "aborted"
                      /\ exc' = "RuntimeError"
                      /\ UNCHANGED page_token
                 ELSE IF ~Truthy(nxt)
                 THEN /\ rpc' = "done"
                      /\ UNCHANGED <<page_token, exc>>
                 ELSE /\ rpc' = "prepare"
                      /\ page_token' = nxt
                      /\ UNCHANGED exc
    /\ UNCHANGED <<streamVars, extra_properties, req, logged, net_calls, gp,
                   pages, notRequest>>

NextRequest == PrepareRequest \/ ReceivePage

SpecRequest == InitRequest /\ [][NextRequest]_vars

(***************************************************************************)
(* Properties of the request builder and the paginator (SpecRequest).      *)
(***************************************************************************)
PostMode == ~forced_get /\ replication_method = "INCREMENTAL"
RequestBuilt == req # NoRequest

\* C1: a stream that is not INCREMENTAL or is forced to GET sends GET and
\* prepare_request_payload returns no body (so no filterGroups), for every
\* cursor, checkpoint and configuration; an incremental, non-forced stream
\* sends POST, get_url_params returns the empty mapping, and the body of
\* the request is not None.
C1_MethodAndBodyByMode ==
    \A resp \in PropertyResponses :
        LET payload == prepare_request_payload(
                           forced_get, replication_method, replication_key,
                           state_ts, cfg_start_from, extra_properties,
                           properties_object_type, resp, page_token)
            params == get_url_params(forced_get, replication_method,
                                     cfg_limit, extra_properties,
                                     properties_object_type, resp, page_token)
        IN  IF PostMode
            THEN /\ rest_method(forced_get, replication_method) = "POST"
                 /\ ~params.raised /\ params.value = EmptyDict
                 /\ RequestBuilt =>
                        /\ req.method = "POST"
                        /\ req.params = EmptyDict
                        /\ req.body # PyNone
            ELSE /\ rest_method(forced_get, replication_method) = "GET"
                 /\ ~payload.raised /\ payload.value = PyNone
                 /\ RequestBuilt =>
                        /\ req.method = "GET"
                        /\ req.body = PyNone

\* C1's case: a forced-GET incremental stream has built the request of a
\* later page (with a cursor), and it is a GET without a body.
C1_Witness ==
    /\ forced_get /\ replication_method = "INCREMENTAL"
    /\ rpc = "sent" /\ Truthy(page_token)
    /\ req.method = "GET" /\ req.body = PyNone
    /\ "after" \in DOMAIN req.params

\* C2: in an incremental, non-forced sync with the test flag off, a page
\* response whose token is an integer n with n + 100 >= 10000 makes get_next
\* return None and ends the page sequence, and no request carries an
\* `after` cursor that is an integer of 9900 or more.
C2_CursorCappedBelowCeiling ==
    (PostMode /\ ~cfg_test) =>
        /\ (PyIntOf(last_token).ok /\ PyIntOf(last_token).n + 100 >= 10000)
               => (last_next = PyNone /\ rpc = "done")
        /\ (RequestBuilt /\ "after" \in DOMAIN req.body)
               => ~(/\ PyIntOf(req.body["after"]).ok
                    /\ PyIntOf(req.body["after"]).n >= 9900)

\* C2's case: the second page of an incremental sync answered with the
\* token "9900", and the page sequence ended there.
C2_Witness ==
    /\ PostMode /\ ~cfg_test
    /\ last_token = PyStr(<<"9", "9", "0", "0">>)
    /\ pages = 2 /\ rpc = "done" /\ last_next = PyNone

\* The checkpoint C6 expects: prior progress, else the parsed start_from,
\* else None.
C6_Expected ==
    IF state_ts # PyNone THEN state_ts
    ELSE IF cfg_start_from # PyNone /\ cfg_start_from.s # <<>>
            /\ parse_datetime(cfg_start_from.s).ok
    THEN parse_datetime(cfg_start_from.s).value
    ELSE PyNone

\* C6: for an incremental, non-forced stream the body holds filterGroups
\* exactly when a checkpoint is resolved (prior progress first, else the
\* parsed start_from), as one GTE filter on the replication key with that
\* value in epoch milliseconds; start_from "2021-01-01" alone gives
\* 1609459200000, and start_from is not used when prior progress exists.
C6_CheckpointFallbackChain ==
    (PostMode /\ RequestBuilt) =>
        /\ ("filterGroups" \in DOMAIN req.body) <=> (C6_Expected # PyNone)
        /\ C6_Expected # PyNone =>
               /\ Len(req.body["filterGroups"]) = 1
               /\ Len(req.body["filterGroups"][1].filters) = 1
               /\ LET flt == req.body["filterGroups"][1].filters[1]
                  IN  /\ flt.operator = "GTE"
                      /\ flt.propertyName = replication_key
                      /\ flt.value = [sec |-> C6_Expected.sec,
                                      ms |-> C6_Expected.us \div 1000]
                      /\ (state_ts = PyNone
                          /\ cfg_start_from = PyStr(Chars_2021_01_01))
                             => flt.value = [sec |-> 1609459200, ms |-> 0]
                      /\ state_ts # PyNone
                             => flt.value = [sec |-> state_ts.sec,
                                             ms |-> state_ts.us \div 1000]

\* C6's case: prior progress and a parseable start_from are both present,
\* and the request built filters on the prior progress.
C6_Witness ==
    /\ PostMode /\ rpc = "sent"
    /\ state_ts = PyDatetime(1649835690, 7500)
    /\ cfg_start_from = PyStr(Chars_2021_01_01)
    /\ "filterGroups" \in DOMAIN req.body

\* C7: with no prior progress and a start_from that does not parse,
\* prepare_request_payload does not fail: the failure is logged and the
\* body is returned without filterGroups.
C7_ParseFailureIsNotFatal ==
    (/\ PostMode /\ state_ts = PyNone /\ Truthy(cfg_start_from)
     /\ ~parse_datetime(cfg_start_from.s).ok
     /\ pages > 0)
        => /\ exc # "TypeError"
           /\ logged
           /\ rpc = "sent" => "filterGroups" \notin DOMAIN req.body

\* C9: once the property cache is populated, get_properties returns the
\* cached list without a network call, so the listing call is sent at most
\* once per stream instance; a stream with no properties_object_type never
\* sends it and gets the empty list.
C9_PropertiesFetchedOnce ==
    /\ (gp.called /\ gp.before # PyNone)
           => (~gp.sent /\ gp.value = gp.before.v)
    /\ net_calls <= 1
    /\ ~Truthy(properties_object_type)
           => (net_calls = 0 /\ (gp.called => gp.value = <<>>))

\* C9's case: a later page of a stream whose listing call succeeded on the
\* first page was built from the cache, with one call sent in all.
C9_Witness ==
    /\ pages >= 2 /\ gp.called /\ gp.before = PyList(<<"email">>)
    /\ ~gp.sent /\ gp.value = <<"email">> /\ net_calls = 1

\* C11: with the test flag set get_next returns None for every page
\* response, whatever token it carries and whatever the replication method
\* and forced_get are, so the page sequence is one page: the first response
\* ends it and no second request is prepared.
C11_TestModeSinglePage ==
    cfg_test =>
        /\ last_next = PyNone
        /\ pages <= 1
        /\ (pages = 1 => rpc \in {"sent", "done", "aborted"})
        /\ page_token = PyNone

\* C11's case: in test mode the first page answered with the token 100,
\* which an incremental sync would otherwise follow, and the sequence ended.
C11_Witness ==
    /\ cfg_test /\ PostMode
    /\ last_token = PyInt(100)
    /\ pages = 1 /\ rpc = "done" /\ last_next = PyNone

\* C12: with the test flag off, a token that int() rejects (a non-numeric
\* string, the empty string, or no token at all) comes back from get_next
\* as extracted, in every replication method and with forced_get either
\* way; the only error after such a response is the repeated cursor.
C12_NonIntegerTokenPassesThrough ==
    (~cfg_test /\ ~PyIntOf(last_token).ok) =>
        /\ last_next = last_token
        /\ (rpc = "prepare" /\ pages > 0) => page_token = last_token
        /\ (rpc = "aborted" /\ Truthy(last_token))
               => (exc = "RuntimeError" /\ page_token = last_token)

\* C12's case: an incremental sync got the token "abc" and goes on to
\* prepare the next page with it.
C12_Witness ==
    /\ ~cfg_test /\ PostMode
    /\ last_token = PyStr(<<"a", "b", "c">>)
    /\ last_next = PyStr(<<"a", "b", "c">>)
    /\ rpc = "prepare" /\ page_token = PyStr(<<"a", "b", "c">>)

\* C14: when the property-listing call answers with a status outside
\* 200..299, get_properties raises RuntimeError with the status and the
\* body text of the response, the sync of the stream is aborted without the
\* page request being built or sent, and the cache is left None.
C14_ListingFailureIsFatal ==
    (gp.called /\ gp.sent /\ gp.response.status \notin 200..299) =>
        /\ gp.raised
        /\ gp.message.status = gp.response.status
        /\ gp.message.text = gp.response.text
        /\ rpc = "aborted" /\ exc = "RuntimeError"
        /\ req = NoRequest
        /\ extra_properties = PyNone

\* C14's case: the listing endpoint answered 500 "rate limited" to a GET
\* stream with an object type, and the sync stands aborted.
C14_Witness ==
    /\ ~PostMode /\ Truthy(properties_object_type)
    /\ gp.called /\ gp.sent
    /\ gp.response = [status |-> 500, text |-> "rate limited"]
    /\ gp.raised /\ rpc = "aborted" /\ extra_properties = PyNone

\* C17: for a FULL_TABLE or forced-GET stream with the test flag off,
\* get_next returns the extracted token unchanged for every value, an
\* integer n with n + 100 >= 10000 included, and the page sequence ends
\* only on a token that is false.
C17_NoCapInGetMode ==
    (~PostMode /\ ~cfg_test) =>
        /\ last_next = last_token
        /\ rpc = "done" => ~Truthy(last_token)
        /\ (rpc = "prepare" /\ pages > 0)
               => (Truthy(last_token) /\ page_token = last_token)

\* C17's case: a forced-GET incremental stream got the token 9900 and
\* prepares the next page with it.
C17_Witness ==
    /\ forced_get /\ replication_method = "INCREMENTAL" /\ ~cfg_test
    /\ last_token = PyInt(9900) /\ last_next = PyInt(9900)
    /\ rpc = "prepare" /\ page_token = PyInt(9900)

(***************************************************************************)
(* HubSpotStream.get_batches: the batch writer.  The records of            *)
(* _sync_records are numbered 1..source_len; a batch file is named by its  *)
(* sequence number ("{prefix}{sync_id}-{i}.json.gz").  The generator       *)
(* stands at "pull" (the head of the for loop), at "yield_roll" (suspended *)
(* at the yield of line 290, holding the record it pulled), at             *)
(* "yield_final" (suspended at the yield of line 309), or has ended:       *)
(* "done", "raised" (an exception left it) or "closed" (the caller stopped *)
(* iterating and the generator was closed at a yield).                     *)
(***************************************************************************)
\* The request side when no page sequence is modelled.
IdleRequest ==
    /\ forced_get = FALSE
    /\ replication_method = "FULL_TABLE"
    /\ replication_key = PyNone
    /\ properties_object_type = PyNone
    /\ extra_properties = PyNone
    /\ cfg_test = FALSE
    /\ cfg_start_from = PyNone
    /\ cfg_limit = PyNone
    /\ state_ts = PyNone
    /\ rpc = "idle"
    /\ page_token = PyNone
    /\ req = NoRequest
    /\ exc = "none"
    /\ logged = FALSE
    /\ net_calls = 0
    /\ gp = NoCall
    /\ last_token = PyNone
    /\ last_next = PyNone
    /\ pages = 0

batch_size(cfg) == IF cfg = PyNone THEN DefaultBatchSize ELSE cfg.n

BatchSizes == {PyNone, PyInt(-1), PyInt(0), PyInt(1), PyInt(2), PyInt(3)}

FileName(n) == [t |-> "name", i |-> n]
Handle(n) == [t |-> "handle", i |-> n]
NewFile == [records |-> <<>>, f_open |-> TRUE, gz_open |-> TRUE]

\* What may go wrong while one record is handled: nothing, fs.open raises,
\* or gz.write raises.
Faults == {"none", "open", "write"}

InitBatch ==
    /\ IdleRequest
    /\ IdleSync
    /\ IdleRecord
    /\ cfg_batch_size \in BatchSizes
    /\ source_len \in 0..MaxRecords
    /\ pulled = 0
    /\ i = 1
    /\ chunk_size = 0
    /\ filename = PyNone
    /\ f = PyNone
    /\ gz = PyNone
    /\ files = <<>>
    /\ manifest = <<>>
    /\ bpc = "pull"
    /\ bexc = "none"

RolloverDue_Late(chunk, size) == chunk > size

RolloverDue_WhenOpen(chunk, size) == chunk > 0 /\ chunk >= size

\* Line 284: the current batch file is full.
RolloverDue(chunk, size) == chunk >= size

FinalFlushDue_FullOnly(chunk, size) == chunk > 0 /\ chunk >= size

\* Line 305: records are waiting in the current batch file (size is not
\* read).
FinalFlushDue(chunk, size) == chunk > 0

\* Lines 297-303 for the record numbered rec, with sequence number seq and
\* current file name fname (PyNone after a rollover and before the first
\* record, when f and gz are None too): open the file and its compressor
\* if there is none, write the record, count it.
WriteRecord(rec, seq, fname, count, fault) ==
    IF fname = PyNone /\ fault = "open"
    THEN /\ filename' = FileName(seq)
         /\ f' = PyNone
         /\ gz' = PyNone
         /\ bpc' = "raised"
         /\ bexc' = "OSError"
         /\ chunk_size' = count
         /\ UNCHANGED files
    ELSE LET opened == IF fname = PyNone
                       THEN Append(files, NewFile) ELSE files
             n == IF fname = PyNone THEN Len(opened) ELSE fname.i
         IN  /\ filename' = IF fname = PyNone THEN FileName(seq) ELSE fname
             /\ f' = Handle(n)
             /\ gz' = Handle(n)
             /\ IF fault = "write"
                THEN /\ files' = opened
                     /\ bpc' = "raised"
                     /\ bexc' = "OSError"
                     /\ chunk_size' = count
                ELSE /\ files' = [opened EXCEPT
                                     ![n].records = Append(@, rec)]
                     /\ bpc' = "pull"
                     /\ bexc' = "none"
                     /\ chunk_size' = count + 1

NextSequence_Stuck(n) == n

\* Line 294: the sequence number of the batch after batch n.
NextSequence(n) == n + 1

CloseCurrent_CompressorOnly == [files EXCEPT ![gz.i].gz_open = FALSE]

\* Both handles of the current file closed (gz.close(), f.close()).
CloseCurrent ==
    [files EXCEPT ![gz.i].gz_open = FALSE, ![f.i].f_open = FALSE]

\* The for loop pulls the next record.  A full batch is closed and yielded
\* first (the record waits in the suspended generator); without an open
\* compressor that close raises AttributeError.  Otherwise the record is
\* written.
PullRecord ==
    /\ bpc = "pull"
    /\ pulled < source_len
    /\ pulled' = pulled + 1
    /\ IF RolloverDue(chunk_size, batch_size(cfg_batch_size))
       THEN IF gz = PyNone
            THEN /\ bpc' = "raised"
                 /\ bexc' = "AttributeError"
                 /\ UNCHANGED <<i, chunk_size, filename, f, gz, files,
                                manifest>>
            ELSE /\ files' = CloseCurrent
                 /\ gz' = PyNone
                 /\ f' = PyNone
                 /\ manifest' = Append(manifest, filename)
                 /\ bpc' = "yield_roll"
                 /\ UNCHANGED <<i, chunk_size, filename, bexc>>
       ELSE /\ \E fault \in Faults :
                  WriteRecord(pulled + 1, i, filename, chunk_size, fault)
            /\ UNCHANGED <<i, manifest>>
    /\ UNCHANGED <<notBatch, cfg_batch_size, source_len>>

ResumeAfterRollover_DropsHeld ==
    /\ bpc = "yield_roll"
    /\ i' = NextSequence(i)
    /\ filename' = PyNone
    /\ chunk_size' = 0
    /\ bpc' = "pull"
    /\ UNCHANGED <<notBatch, cfg_batch_size, source_len, pulled, manifest,
                   f, gz, files, bexc>>

\* The caller asks for the next entry after a rollover: lines 292-303, the
\* record pulled before the yield goes to a new file.
ResumeAfterRollover ==
    /\ bpc = "yield_roll"
    /\ i' = NextSequence(i)
    /\ \E fault \in Faults :
          WriteRecord(pulled, NextSequence(i), PyNone, 0, fault)
    /\ UNCHANGED <<notBatch, cfg_batch_size, source_len, pulled, manifest>>

\* _sync_records raises while the loop waits for the next record.
SourceRaises ==
    /\ bpc = "pull"
    /\ bpc' = "raised"
    /\ bexc' = "SourceError"
    /\ UNCHANGED <<notBatch, cfg_batch_size, source_len, pulled, i, chunk_size,
                   filename, f, gz, files, manifest>>

\* _sync_records ends: lines 305-309.
SourceExhausted ==
    /\ bpc = "pull"
    /\ pulled = source_len
    /\ IF FinalFlushDue(chunk_size, batch_size(cfg_batch_size))
       THEN /\ files' = CloseCurrent
            /\ manifest' = Append(manifest, filename)
            /\ bpc' = "yield_final"
       ELSE /\ bpc' = "done"
            /\ UNCHANGED <<files, manifest>>
    /\ UNCHANGED <<notBatch, cfg_batch_size, source_len, pulled, i, chunk_size,
                   filename, f, gz, bexc>>

\* The caller asks for the next entry after the final one: the generator
\* returns.
ResumeAfterFinal ==
    /\ bpc = "yield_final"
    /\ bpc' = "done"
    /\ UNCHANGED <<notBatch, cfg_batch_size, source_len, pulled, i, chunk_size,
                   filename, f, gz, files, manifest, bexc>>

\* The caller stops iterating: the generator is closed where it is
\* suspended, and no statement of get_batches runs again.
CallerStops ==
    /\ bpc \in {"yield_roll", "yield_final"}
    /\ bpc' = "closed"
    /\ UNCHANGED <<notBatch, cfg_batch_size, source_len, pulled, i, chunk_size,
                   filename, f, gz, files, manifest, bexc>>

NextBatch ==
    \/ PullRecord
    \/ ResumeAfterRollover
    \/ SourceRaises
    \/ SourceExhausted
    \/ ResumeAfterFinal
    \/ CallerStops

SpecBatch == InitBatch /\ [][NextBatch]_vars

(***************************************************************************)
(* Properties of the batch writer (SpecBatch).                             *)
(***************************************************************************)
BatchSize == batch_size(cfg_batch_size)
Ceil(n, d) == (n + d - 1) \div d
RecordCount(name) == Len(files[name.i].records)
Closed(k) == ~files[k].f_open /\ ~files[k].gz_open
CurrentOpen == gz # PyNone /\ files[gz.i].gz_open
Yielded(k) == \E j \in 1..Len(manifest) : manifest[j] = FileName(k)

RECURSIVE WrittenUpTo(_)
WrittenUpTo(k) ==
    IF k = 0 THEN 0 ELSE Len(files[k].records) + WrittenUpTo(k - 1)

\* C3: a record sequence of N records with batch_size B >= 1, consumed to
\* its end, yields ceil(N/B) manifest entries; every file but the last
\* holds B records and the last N - (ceil(N/B) - 1) * B (B = 2, N = 5: 2,
\* 2, 1); N = 0 yields none.
C3_BatchCountAndSizes ==
    (bpc = "done" /\ BatchSize >= 1) =>
        LET n == Ceil(source_len, BatchSize)
        IN  /\ Len(manifest) = n
            /\ source_len = 0 => manifest = <<>>
            /\ \A k \in 1..Len(manifest) :
                   RecordCount(manifest[k]) =
                       IF k < n THEN BatchSize
                       ELSE source_len - (n - 1) * BatchSize
            /\ (BatchSize = 2 /\ source_len = 5) =>
                   /\ Len(manifest) = 3
                   /\ RecordCount(manifest[1]) = 2
                   /\ RecordCount(manifest[2]) = 2
                   /\ RecordCount(manifest[3]) = 1

\* C3's case: batch_size 2 and five records, consumed to the end.
C3_Witness ==
    /\ bpc = "done" /\ BatchSize = 2 /\ source_len = 5
    /\ Len(manifest) = 3

\* C4: when get_batches has stopped (sequence exhausted, caller stopped
\* iterating, or an error of the record source or of a file write), every
\* raw file and every compressor that was opened has been closed.
C4_NoHandleLeftOpen ==
    bpc \in {"done", "raised", "closed"} =>
        \A k \in 1..Len(files) : Closed(k)

\* C5 as stated: no further record is pulled while the current batch file
\* holds batch_size records and is still open (it is closed and yielded as
\* soon as it is full), and at the end of the sequence a partial batch is
\* closed and yielded.
C5_ClosedBeforeNextPull ==
    /\ [][pulled' # pulled =>
              ~(CurrentOpen /\ chunk_size >= BatchSize)]_vars
    /\ [](bpc = "done" => \A k \in 1..Len(files) :
              Len(files[k].records) > 0 => (Closed(k) /\ Yielded(k)))

\* C5 amended: a full batch file stays open until the next record is
\* pulled; on that pull, before the record is written, the file is closed
\* and its entry yielded, so no file ever holds more than batch_size
\* records; and when the sequence ends every file with a record in it, the
\* final partial one included, is closed and yielded.
C5_RolloverOnNextPull ==
    BatchSize >= 1 =>
        /\ \A k \in 1..Len(files) : Len(files[k].records) <= BatchSize
        /\ bpc = "yield_roll" =>
               /\ manifest # <<>>
               /\ Closed(manifest[Len(manifest)].i)
               /\ RecordCount(manifest[Len(manifest)]) = BatchSize
               /\ WrittenUpTo(Len(files)) = pulled - 1
        /\ (CurrentOpen /\ chunk_size >= BatchSize)
               => bpc \in {"pull", "raised"}
        /\ bpc \in {"yield_final", "done"} =>
               /\ source_len > 0 => manifest # <<>>
               /\ \A k \in 1..Len(files) :
                      Len(files[k].records) > 0 => (Closed(k) /\ Yielded(k))

\* C5's case: the third record was pulled with a full file of two, which
\* was closed and yielded before the record is written.
C5_Witness ==
    /\ bpc = "yield_roll" /\ BatchSize = 2 /\ pulled = 3
    /\ Len(manifest) = 1 /\ Closed(1)
    /\ WrittenUpTo(Len(files)) = 2

\* C13: the k-th manifest entry names the file with sequence number k:
\* the numbering starts at 1 and advances by one per finalized batch, so
\* no two entries of one get_batches call name the same file.
C13_ManifestNumberedInOrder ==
    /\ \A k \in 1..Len(manifest) : manifest[k] = FileName(k)
    /\ \A j, k \in 1..Len(manifest) : manifest[j] = manifest[k] => j = k
    /\ bpc # "idle" => Len(manifest) \in {i - 1, i}
    /\ bpc = "pull" => i = Len(manifest) + 1

\* C13's case: three batches were finalized, the last at the end of the
\* records, and the entries name the files 1, 2, 3.
C13_Witness ==
    /\ bpc = "done" /\ Len(manifest) = 3
    /\ manifest = <<FileName(1), FileName(2), FileName(3)>>

\* The records of the files the manifest entries 1..k name, read in that
\* order.
RECURSIVE ReadBack(_)
ReadBack(k) ==
    IF k = 0 THEN <<>>
    ELSE ReadBack(k - 1) \o files[manifest[k].i].records

\* C18: with batch_size >= 1 and a record sequence that ends without an
\* error, the records of the files read in manifest order are the input
\* sequence in its order: none is lost, repeated or reordered, and the
\* record held across a rollover opens the next file.
C18_RecordsPreservedInOrder ==
    (bpc = "done" /\ BatchSize >= 1) =>
        /\ ReadBack(Len(manifest)) = [n \in 1..source_len |-> n]
        /\ Len(files) = Len(manifest)
        /\ WrittenUpTo(Len(files)) = source_len
        /\ \A k \in 2..Len(files) :
               files[k].records[1] = WrittenUpTo(k - 1) + 1

\* C18's case: five records in batches of two ended in three files, the
\* third opened by the record held at the second rollover.
C18_Witness ==
    /\ bpc = "done" /\ BatchSize = 2 /\ source_len = 5
    /\ Len(manifest) = 3
    /\ files[3].records = <<5>>

\* The batch files with a handle open.
OpenFiles == {k \in 1..Len(files) : files[k].f_open \/ files[k].gz_open}

\* C19: at every point of a get_batches call at most one batch file has a
\* handle open; at each yield the file the entry names is closed and holds
\* at least one record, and no batch file is open.
C19_OneOpenFileClosedAtYield ==
    /\ Cardinality(OpenFiles) <= 1
    /\ bpc \in {"yield_roll", "yield_final"} =>
           /\ Len(manifest) >= 1
           /\ Closed(manifest[Len(manifest)].i)
           /\ RecordCount(manifest[Len(manifest)]) >= 1
           /\ OpenFiles = {}

\* C19's case: the second entry is handed over at a rollover, with both
\* files written so far closed.
C19_Witness ==
    /\ bpc = "yield_roll" /\ Len(manifest) = 2
    /\ Len(files) = 2 /\ Closed(1) /\ Closed(2)
    /\ RecordCount(manifest[2]) >= 1

\* C20: with batch_size < 1 and a record to write, get_batches fails on
\* the first record at the rollover step (the close of a compressor that
\* is None): no file was opened, no record written, no entry yielded.
C20_NonPositiveBatchSizeFailsAtOnce ==
    (BatchSize < 1 /\ pulled >= 1) =>
        /\ pulled = 1
        /\ bpc = "raised" /\ bexc = "AttributeError"
        /\ files = <<>> /\ manifest = <<>>
        /\ filename = PyNone /\ f = PyNone /\ gz = PyNone
        /\ chunk_size = 0

\* C20's case: batch_size 0 and three records; the first pull raised.
C20_Witness ==
    /\ cfg_batch_size = PyInt(0) /\ source_len = 3
    /\ pulled = 1 /\ bpc = "raised" /\ bexc = "AttributeError"
    /\ files = <<>> /\ manifest = <<>>

(***************************************************************************)
(* Repeated incremental syncs of a non-forced stream against the search    *)
(* endpoint.  A replication-key value is a whole number of seconds (1,     *)
(* 2, ...); upstream[t] records carry the value t.  The endpoint answers a *)
(* request with the records that pass its GTE filter, sorted ascending by  *)
(* the replication key (records of one value in a fixed order), `limit`    *)
(* of them from offset `after`, and with the next offset as token while    *)
(* more remain.  After a sync the checkpoint is the highest                *)
(* replication-key value emitted so far.                                   *)
(***************************************************************************)
notSync == <<batchVars, recVars>>

\* How many records carry one replication-key value upstream.
GroupSizes == {0, 150, 9900, 9950}

DigitChar(d) ==
    CASE d = 0 -> "0" [] d = 1 -> "1" [] d = 2 -> "2" [] d = 3 -> "3"
      [] d = 4 -> "4" [] d = 5 -> "5" [] d = 6 -> "6" [] d = 7 -> "7"
      [] d = 8 -> "8" [] d = 9 -> "9"

\* str(n) for n >= 0, as characters.
RECURSIVE IntToChars(_)
IntToChars(n) ==
    IF n < 10 THEN <<DigitChar(n)>>
    ELSE Append(IntToChars(n \div 10), DigitChar(n % 10))

Stamps == 1..MaxStamp

\* Records upstream with a replication-key value in lo..hi.
RECURSIVE CountBetween(_, _)
CountBetween(lo, hi) ==
    IF hi < lo \/ hi < 1 THEN 0
    ELSE (IF hi >= lo THEN upstream[hi] ELSE 0) + CountBetween(lo, hi - 1)

Min(a, b) == IF a <= b THEN a ELSE b
Max(a, b) == IF a >= b THEN a ELSE b

\* The answer of the search endpoint to the body of a request: how many
\* records of each replication-key value the pages up to this one have
\* returned, the highest value on this page, and the token.
SearchResponse(body) ==
    LET from == IF "filterGroups" \in DOMAIN body
                THEN body["filterGroups"][1].filters[1].value.sec ELSE 0
        offset == IF "after" \in DOMAIN body
                  THEN PyIntOf(body["after"]).n ELSE 0
        upto == offset + body["limit"]
        total == CountBetween(from, MaxStamp)
        seen == [t \in Stamps |->
                    IF t < from THEN 0
                    ELSE Min(upstream[t],
                             Max(0, upto - CountBetween(from, t - 1)))]
        onpage == {t \in Stamps :
                      /\ t >= from
                      /\ seen[t] > 0
                      /\ CountBetween(from, t) > offset}
    IN  [seen |-> seen,
         highest |-> IF onpage = {} THEN 0
                     ELSE CHOOSE t \in onpage : \A u \in onpage : u <= t,
         token |-> IF upto < total THEN PyStr(IntToChars(upto)) ELSE PyNone]

InitSync ==
    /\ forced_get = FALSE
    /\ replication_method = "INCREMENTAL"
    /\ replication_key = ReplicationKey
    /\ properties_object_type = PyNone
    /\ extra_properties = PyNone
    /\ cfg_test = FALSE
    /\ cfg_start_from = PyNone
    /\ cfg_limit = PyNone
    /\ state_ts = PyNone
    /\ rpc = "prepare"
    /\ page_token = PyNone
    /\ req = NoRequest
    /\ exc = "none"
    /\ logged = FALSE
    /\ net_calls = 0
    /\ gp = NoCall
    /\ last_token = PyNone
    /\ last_next = PyNone
    /\ pages = 0
    /\ IdleBatch
    /\ IdleRecord
    /\ upstream \in [Stamps -> GroupSizes]
    /\ emitted = [t \in Stamps |-> 0]
    /\ emitted_at_start = emitted
    /\ sync_max = 0
    /\ spc = "paging"

\* One page of a sync: the request is built (prepare_request_payload), the
\* endpoint answers, the records of the page are emitted, and get_next
\* gives the cursor of the next page or ends the page sequence.
FetchPage ==
    /\ spc = "paging"
    /\ LET payload == prepare_request_payload(
                          forced_get, replication_method, replication_key,
                          state_ts, cfg_start_from, extra_properties,
                          properties_object_type,
                          [status |-> StatusOk, names |-> <<>>], page_token)
           answer == SearchResponse(payload.value)
           nxt == get_next(cfg_test, forced_get, replication_method,
                           answer.token)
       IN  /\ req' = [method |-> rest_method(forced_get, replication_method),
                      params |-> EmptyDict, body |-> payload.value]
           /\ extra_properties' = payload.cache
           /\ emitted' = [t \in Stamps |-> Max(emitted[t], answer.seen[t])]
           /\ sync_max' = Max(sync_max, answer.highest)
           /\ last_token' = answer.token
           /\ last_next' = nxt
           /\ IF Truthy(nxt)
              THEN /\ page_token' = nxt
                   /\ spc' = "paging"
              ELSE /\ page_token' = PyNone
                   /\ spc' = "finished"
    /\ UNCHANGED <<streamVars, rpc, exc, logged, net_calls, gp, pages,
                   upstream, emitted_at_start, notSync>>

\* The sync is over: its highest replication-key value becomes the
\* checkpoint of the next sync, which starts with a new paginator.
StartNextSync ==
    /\ spc = "finished"
    /\ state_ts' = IF sync_max = 0 THEN state_ts
                   ELSE IF state_ts = PyNone THEN PyDatetime(sync_max, 0)
                   ELSE PyDatetime(Max(state_ts.sec, sync_max), 0)
    /\ sync_max' = 0
    /\ emitted_at_start' = emitted
    /\ spc' = "paging"
    /\ UNCHANGED <<forced_get, replication_method, replication_key,
                   properties_object_type, extra_properties, cfg_test,
                   cfg_start_from, cfg_limit, rpc, page_token, req, exc,
                   logged, net_calls, gp, last_token, last_next, pages,
                   upstream, emitted, notSync>>

NextSync == FetchPage \/ StartNextSync

SpecSync == InitSync /\ [][NextSync]_vars

\* The page sequence of the sync that just finished was cut off by the cap.
CutOffByCap == spc = "finished" /\ last_token # PyNone /\ last_next = PyNone

\* C8: repeated incremental syncs, each starting from the highest
\* replication-key value emitted before it, eventually emit every upstream
\* record, also when many records share one replication-key value: a sync
\* cut off by the cap while records are still to be emitted moves the
\* checkpoint forward or emits a record not emitted before (otherwise the
\* next sync, and every one after it, repeats it).
C8_CappedSyncMakesProgress ==
    (CutOffByCap /\ \E t \in Stamps : emitted[t] < upstream[t]) =>
        \/ emitted # emitted_at_start
        \/ state_ts = PyNone
        \/ sync_max > state_ts.sec

(***************************************************************************)
(* HubSpotStream.post_process: the record projector.  A raw record is a    *)
(* function from its field names; a nested object (`properties`,           *)
(* `associations`) is a dict kept as its items in insertion order,         *)
(* [t |-> "dict", items |-> << <<key, value>>, ... >>], the key as         *)
(* characters.                                                             *)
(***************************************************************************)
PyDict(items) == [t |-> "dict", items |-> items]
Absent == [t |-> "absent"]

HasKey(d, key) == \E k \in 1..Len(d.items) : d.items[k][1] = key
GetItem(d, key) ==
    d.items[CHOOSE k \in 1..Len(d.items) : d.items[k][1] = key][2]

\* The characters of a str as one field name.
RECURSIVE FieldName(_)
FieldName(chars) ==
    IF chars = <<>> THEN "" ELSE Head(chars) \o FieldName(Tail(chars))

\* json.dumps(v), as characters: None is null, an int its digits, a str is
\* quoted, a dict is {"k": v, ...} in insertion order.
RECURSIVE JsonDumps(_)
RECURSIVE JsonItems(_)
JsonItems(items) ==
    IF items = <<>> THEN <<>>
    ELSE <<"\"">> \o items[1][1] \o <<"\"", ":", " ">>
         \o JsonDumps(items[1][2])
         \o (IF Len(items) > 1 THEN <<",", " ">> ELSE <<>>)
         \o JsonItems(Tail(items))
JsonDumps(v) ==
    CASE v.t = "none" -> <<"n", "u", "l", "l">>
      [] v.t = "int" -> IntToChars(v.n)
      [] v.t = "str" -> <<"\"">> \o v.s \o <<"\"">>
      [] v.t = "dict" -> <<"{">> \o JsonItems(v.items) \o <<"}">>

\* get_replication_key_value(row) with replication key rk: whether it
\* raised, the exception, the value returned.
get_replication_key_value(rk, r) ==
    IF ~Truthy(rk) \/ "properties" \notin DOMAIN r
    THEN [raised |-> FALSE, exc |-> "none", value |-> PyNone]
    ELSE LET props == r["properties"]
         IN  IF props.t # "dict"
             THEN [raised |-> TRUE, exc |-> "TypeError", value |-> PyNone]
             ELSE IF ~HasKey(props, rk.s)
             THEN [raised |-> TRUE, exc |-> "KeyError", value |-> PyNone]
             ELSE IF GetItem(props, rk.s).t # "str"
             THEN [raised |-> TRUE, exc |-> "TypeError", value |-> PyNone]
             ELSE IF ~parse_datetime(GetItem(props, rk.s).s).ok
             THEN [raised |-> TRUE, exc |-> "ParserError", value |-> PyNone]
             ELSE [raised |-> FALSE, exc |-> "none",
                   value |-> parse_datetime(GetItem(props, rk.s).s).value]

SetField(r, name, value) ==
    [k \in DOMAIN r \cup {name} |-> IF k = name THEN value ELSE r[k]]

\* post_process(row) with replication key rk: whether it raised, the
\* exception, the record returned.
post_process_AlwaysSerializes(rk, r) ==
    LET lifted == get_replication_key_value(rk, r)
        r1 == IF Truthy(rk)
              THEN SetField(r, FieldName(rk.s), lifted.value) ELSE r
        r2 == SetField(r1, "properties",
                       PyStr(JsonDumps(IF "properties" \in DOMAIN r1
                                       THEN r1["properties"] ELSE PyNone)))
        r3 == SetField(r2, "associations",
                       PyStr(JsonDumps(IF "associations" \in DOMAIN r2
                                       THEN r2["associations"] ELSE PyNone)))
    IN  IF Truthy(rk) /\ lifted.raised
        THEN [raised |-> TRUE, exc |-> lifted.exc, value |-> PyNone]
        ELSE [raised |-> FALSE, exc |-> "none", value |-> r3]

post_process(rk, r) ==
    LET lifted == get_replication_key_value(rk, r)
        r1 == IF Truthy(rk)
              THEN SetField(r, FieldName(rk.s), lifted.value) ELSE r
        r2 == IF "properties" \in DOMAIN r1
              THEN SetField(r1, "properties",
                            PyStr(JsonDumps(r1["properties"])))
              ELSE r1
        r3 == IF "associations" \in DOMAIN r2
              THEN SetField(r2, "associations",
                            PyStr(JsonDumps(r2["associations"])))
              ELSE r2
    IN  IF Truthy(rk) /\ lifted.raised
        THEN [raised |-> TRUE, exc |-> lifted.exc, value |-> PyNone]
        ELSE [raised |-> FALSE, exc |-> "none", value |-> r3]

Chars_timestamp ==
    <<"2", "0", "2", "2", "-", "0", "4", "-", "1", "3", "T", "0", "7", ":",
      "4", "1", ":", "3", "0", ".", "0", "0", "7", "Z">>

PropertiesValues ==
    {Absent, PyNone, PyDict(<<>>),
     PyDict(<< <<ReplicationKey.s, PyStr(Chars_timestamp)>> >>),
     PyDict(<< <<<<"a">>, PyInt(1)>>,
               <<ReplicationKey.s, PyStr(Chars_2021_01_01)>> >>),
     PyDict(<< <<ReplicationKey.s, PyNone>> >>),
     PyDict(<< <<ReplicationKey.s, PyStr(Chars_not_a_date)>> >>),
     PyDict(<< <<<<"a">>, PyInt(1)>> >>)}

AssociationsValues ==
    {Absent, PyNone, PyDict(<< <<<<"b">>, PyInt(2)>> >>)}

OptionalField(name, value) ==
    IF value = Absent THEN EmptyDict ELSE name :> value

RawRecords ==
    {("id" :> PyStr(<<"1">>))
         @@ OptionalField("properties", p)
         @@ OptionalField("associations", a)
         @@ OptionalField("archived", x)
         @@ OptionalField(FieldName(ReplicationKey.s), u) :
     p \in PropertiesValues, a \in AssociationsValues,
     x \in {Absent, PyInt(0)}, u \in {Absent, PyStr(<<"o", "l", "d">>)}}

\* Names of streams the tap registers; `contacts` is the one is_sorted
\* singles out.
StreamNames == {"companies", "contacts", "deals"}

InitRecord ==
    /\ forced_get = FALSE
    /\ replication_method \in {"INCREMENTAL", "FULL_TABLE"}
    /\ replication_key \in
           IF replication_method = "INCREMENTAL"
           THEN {ReplicationKey} ELSE {PyNone, ReplicationKey}
    /\ properties_object_type = PyNone
    /\ extra_properties = PyNone
    /\ cfg_test = FALSE
    /\ cfg_start_from = PyNone
    /\ cfg_limit = PyNone
    /\ state_ts = PyNone
    /\ rpc = "idle"
    /\ page_token = PyNone
    /\ req = NoRequest
    /\ exc = "none"
    /\ logged = FALSE
    /\ net_calls = 0
    /\ gp = NoCall
    /\ last_token = PyNone
    /\ last_next = PyNone
    /\ pages = 0
    /\ IdleBatch
    /\ IdleSync
    /\ row \in RawRecords
    /\ out = PyNone
    /\ rexc = "none"
    /\ ppc = "call"
    /\ stream_name \in StreamNames
    /\ sorted_read = PyNone

\* post_process runs on the record.
PostProcess ==
    /\ ppc = "call"
    /\ LET result == post_process(replication_key, row)
       IN  /\ ppc' = IF result.raised THEN "raised" ELSE "returned"
           /\ rexc' = result.exc
           /\ out' = result.value
    /\ UNCHANGED <<reqVars, batchVars, syncVars, row, stream_name,
                   sorted_read>>

\* The is_sorted property of the stream is read.
ReadIsSorted ==
    /\ ppc # "idle"
    /\ sorted_read = PyNone
    /\ sorted_read' = PyBool(is_sorted(replication_method, stream_name))
    /\ UNCHANGED <<reqVars, batchVars, syncVars, row, out, rexc, ppc,
                   stream_name>>

NextRecord == PostProcess \/ ReadIsSorted

SpecRecord == InitRecord /\ [][NextRecord]_vars

\* C10: with a replication key configured, post_process returns the record
\* with None in the top-level replication-key field, and raises nothing,
\* both when the record has no `properties` and when `properties` does not
\* contain the replication key.
C10_MissingKeyYieldsNone ==
    (/\ ppc # "call"
     /\ Truthy(replication_key)
     /\ \/ "properties" \notin DOMAIN row
        \/ /\ row["properties"].t = "dict"
           /\ ~HasKey(row["properties"], replication_key.s))
        => /\ ppc = "returned"
           /\ out[FieldName(replication_key.s)] = PyNone

\* The fields post_process may write: `properties`, `associations` and,
\* with a replication key configured, the top-level field of that name.
Projected ==
    {"properties", "associations"}
        \cup (IF Truthy(replication_key)
              THEN {FieldName(replication_key.s)} ELSE {})

\* C15: post_process changes at most the top-level replication-key field
\* (when a replication key is configured), `properties` and
\* `associations`: every other field of the input is in the output with
\* the same value, and the only field that may be added is the top-level
\* replication-key field.
C15_OtherFieldsUntouched ==
    ppc = "returned" =>
        /\ \A k \in DOMAIN row \ Projected :
               k \in DOMAIN out /\ out[k] = row[k]
        /\ DOMAIN row \subseteq DOMAIN out
        /\ DOMAIN out \ DOMAIN row
               \subseteq (IF Truthy(replication_key)
                          THEN {FieldName(replication_key.s)} ELSE {})

\* C15's case: a record without `properties` and without `associations`
\* went through a stream with no replication key and came back with its
\* `id`, `archived` and `updatedAt` fields as they were.
C15_Witness ==
    /\ ppc = "returned" /\ replication_key = PyNone
    /\ DOMAIN row = {"id", "archived", FieldName(ReplicationKey.s)}
    /\ out = row

\* C16: is_sorted is true only for a stream whose replication method is
\* INCREMENTAL and whose name is not `contacts`; it is false for every
\* FULL_TABLE stream and for `contacts` with either replication method.
C16_SortedOnlyIncrementalNotContacts ==
    sorted_read # PyNone =>
        /\ sorted_read.b =>
               (replication_method = "INCREMENTAL" /\ stream_name # "contacts")
        /\ replication_method = "FULL_TABLE" => ~sorted_read.b
        /\ stream_name = "contacts" => ~sorted_read.b

\* C16's case: is_sorted was read on the incremental `contacts` stream and
\* gave False.
C16_Witness ==
    /\ stream_name = "contacts" /\ replication_method = "INCREMENTAL"
    /\ sorted_read = PyBool(FALSE)
====
